---- MODULE Spec2Model ----
(***************************************************************************)
(* etl::intrusive_avl_tree (include/etl/intrusive_avl_tree.h).             *)
(*                                                                         *)
(* One tree of one link ID.  A link is the origin (the sentinel owned by   *)
(* the tree) or the link embedded in a value; a pointer is a link or       *)
(* ETL_NULLPTR.  Values are the ItemNDCNode objects of the unit test: each *)
(* carries an integer key (data.value).                                    *)
(***************************************************************************)
EXTENDS Integers, Sequences, FiniteSets, TLC

\* Number of value objects the callers own (addresses 1..MaxNodes).
MaxNodes == 4
\* Keys are 1..MaxKey.
MaxKey == 4

\* ETL_NULLPTR
Null == -1
\* Address of the tree's origin link.
Origin == 0

Node == 1..MaxNodes
Link == {Origin} \cup Node
Key == 1..MaxKey
VARIABLES
    etl_parent,   \* link -> pointer          (tree_link::etl_parent)
    etl_left,     \* link -> pointer          (tree_link::etl_left)
    etl_right,    \* link -> pointer          (tree_link::etl_right)
    etl_bf,       \* link -> balance factor   (link_type::etl_bf)
    key,          \* data.value of the constructed values 1..Len(key)
    range,        \* the values [first, last) the tree was constructed from
    size,         \* the tree's count of live nodes
    p_value,      \* the caller's iterator, assigned what the calls return (iterator::p_value)
    last          \* the last public call: its arguments and what it returned

vars == <<etl_parent, etl_left, etl_right, etl_bf, key, range, size, p_value, last>>

\* The values 1..used are constructed.
used == Len(key)

\* The link fields of all links, as one value.
Links == [etl_parent |-> etl_parent, etl_left |-> etl_left,
          etl_right |-> etl_right, etl_bf |-> etl_bf]

\* link_type(): all references empty, etl_bf(0).
link_type == [etl_parent |-> [l \in Link |-> Null], etl_left |-> [l \in Link |-> Null],
              etl_right |-> [l \in Link |-> Null], etl_bf |-> [l \in Link |-> 0]]

is_origin(t, n) == t.etl_parent[n] = Null

get_parent(t, n) == t.etl_parent[n]

get_child(t, n, is_right) == IF is_right THEN t.etl_right[n] ELSE t.etl_left[n]

is_child(t, n, is_right) ==
    LET parent == get_parent(t, n)
    IN  (Null # parent) /\ (n = get_child(t, parent, is_right))

\* parent->get_child_ref(is_right) = result
set_child_ref(t, n, is_right, result) ==
    IF is_right THEN [t EXCEPT !.etl_right[n] = result]
                ELSE [t EXCEPT !.etl_left[n] = result]

get_root(t) == t.etl_left[Origin]

empty(t) == get_root(t) = Null

RECURSIVE begin_loop(_, _, _)
begin_loop(t, curr, next) ==
    IF next # Null THEN begin_loop(t, next, get_child(t, next, FALSE)) ELSE curr

\* Fault: begin() is the root and not the left-most node.
begin_impl_root(t) == IF get_child(t, Origin, FALSE) # Null THEN get_child(t, Origin, FALSE) ELSE Origin

begin_impl(t) == begin_loop(t, Origin, get_child(t, Origin, FALSE))

end_impl(t) == Origin

RECURSIVE extremum_loop(_, _, _, _)
extremum_loop(t, curr, next, is_max) ==
    IF Null # next THEN extremum_loop(t, next, get_child(t, next, is_max), is_max) ELSE curr

find_extremum_impl(t, curr, is_max) == extremum_loop(t, curr, get_child(t, curr, is_max), is_max)

\* while (curr->is_child(is_right)) curr = curr->get_parent();
RECURSIVE climb(_, _, _)
climb(t, curr, is_right) ==
    IF is_child(t, curr, is_right) THEN climb(t, get_parent(t, curr), is_right) ELSE curr

\* Fault: the origin is not recognised as the end of the walk.
next_in_order_impl_no_origin_check(t, curr) ==
    IF Null = curr THEN curr
    ELSE IF get_child(t, curr, TRUE) # Null
         THEN find_extremum_impl(t, get_child(t, curr, TRUE), FALSE)
         ELSE get_parent(t, climb(t, curr, TRUE))

next_in_order_impl(t, curr) ==
    IF (Null = curr) \/ is_origin(t, curr) THEN curr
    ELSE IF get_child(t, curr, TRUE) # Null
         THEN find_extremum_impl(t, get_child(t, curr, TRUE), FALSE)
         ELSE get_parent(t, climb(t, curr, TRUE))

\* Fault: the predecessor is taken to be the minimum of the left subtree.
prev_in_order_impl_min(t, curr) ==
    IF Null = curr THEN curr
    ELSE IF get_child(t, curr, FALSE) # Null
         THEN find_extremum_impl(t, get_child(t, curr, FALSE), FALSE)
         ELSE LET c == climb(t, curr, FALSE)
              IN  IF is_origin(t, c) THEN c ELSE get_parent(t, c)

\* Fault: the climb out of the left-most node does not stop at the origin.
prev_in_order_impl_no_origin_check(t, curr) ==
    IF Null = curr THEN curr
    ELSE IF get_child(t, curr, FALSE) # Null
         THEN find_extremum_impl(t, get_child(t, curr, FALSE), TRUE)
         ELSE get_parent(t, climb(t, curr, FALSE))

\* Fault: a null iterator is stepped to the origin.
prev_in_order_impl_null_to_origin(t, curr) ==
    IF Null = curr THEN Origin
    ELSE IF get_child(t, curr, FALSE) # Null
         THEN find_extremum_impl(t, get_child(t, curr, FALSE), TRUE)
         ELSE LET c == climb(t, curr, FALSE)
              IN  IF is_origin(t, c) THEN c ELSE get_parent(t, c)

prev_in_order_impl(t, curr) ==
    IF Null = curr THEN curr
    ELSE IF get_child(t, curr, FALSE) # Null
         THEN find_extremum_impl(t, get_child(t, curr, FALSE), TRUE)
         ELSE LET c == climb(t, curr, FALSE)
              IN  IF is_origin(t, c) THEN c ELSE get_parent(t, c)


(***************************************************************************)
(* Comparators and factories of the callers.                               *)
(***************************************************************************)
\* std::less<ItemNDCNode>: lhs.data < rhs.data
lessComp(value, other) == key[value] < key[other]

\* Fault: the adapter reports equivalent values as equal.
CompareFactory_compare_three_way(value, other) ==
    IF lessComp(value, other) THEN -1 ELSE IF lessComp(other, value) THEN 1 ELSE 0

\* CompareFactory::operator()(const TValue& other)
CompareFactory_compare(value, other) == IF lessComp(value, other) THEN -1 ELSE 1

\* CompareFactory::operator()()
CompareFactory_factory(value) == value

\* ItemNDCNode::CompareByValue{value}, always_after, always_before and
\* CompareFactory(value, lessComp), applied to the value `other`.
Compare(comp, other) ==
    CASE comp.kind = "CompareByValue" -> comp.value - key[other]
      [] comp.kind = "always_after"   -> 1
      [] comp.kind = "always_before"  -> -1
      [] comp.kind = "CompareFactory" -> CompareFactory_compare(comp.value, other)

CompareByValue(v) == [kind |-> "CompareByValue", value |-> v]
always_after == [kind |-> "always_after", value |-> 0]
always_before == [kind |-> "always_before", value |-> 0]
CompareFactory(value) == [kind |-> "CompareFactory", value |-> value]
NoComp == [kind |-> "none", value |-> 0]

(***************************************************************************)
(* find_impl                                                               *)
(***************************************************************************)
\* Fault: a non-positive result is taken for a match.
find_is_match_nonpositive(cmp) == 0 >= cmp

\* if (0 == cmp)
find_is_match(cmp) == 0 = cmp

\* Fault: the descent of find_impl takes the wrong side.
find_is_right_mirrored(cmp) == cmp < 0

\* curr->get_child(cmp > 0)
find_is_right(cmp) == cmp > 0

\* The while loop of find_impl; steps counts the calls of comp.
RECURSIVE find_loop(_, _, _, _)
find_loop(t, comp, curr, steps) ==
    IF Null # curr
    THEN LET cmp == Compare(comp, curr)
         IN  IF find_is_match(cmp)
             THEN [result |-> curr, steps |-> steps + 1]
             ELSE find_loop(t, comp, get_child(t, curr, find_is_right(cmp)), steps + 1)
    ELSE [result |-> Null, steps |-> steps]

find_impl(t, root, comp) == find_loop(t, comp, root, 0)

\* Fault: a null pointer is not replaced by end().
make_iterator_unchecked(ptr, end) == ptr

make_iterator(ptr, end) == IF ptr # Null THEN ptr ELSE end

\* intrusive_avl_tree::find
find(t, comp) ==
    LET r == find_impl(t, get_root(t), comp)
    IN  [first |-> make_iterator(r.result, end_impl(t)), steps |-> r.steps]

(***************************************************************************)
(* find_or_insert_impl                                                     *)
(***************************************************************************)
\* Fault: the descent of find_or_insert_impl never sees a match.
insert_is_match_never(cmp) == FALSE

\* if (0 == cmp)
insert_is_match(cmp) == 0 = cmp

\* Fault: the descent of find_or_insert_impl takes the wrong side.
insert_is_right_mirrored(cmp) == cmp < 0

\* is_right = cmp > 0
insert_is_right(cmp) == cmp > 0

\* The while loop of find_or_insert_impl.
RECURSIVE insert_loop(_, _, _, _, _)
insert_loop(t, comp, curr, parent, is_right) ==
    IF Null # curr
    THEN LET cmp == Compare(comp, curr)
         IN  IF insert_is_match(cmp)
             THEN [found |-> TRUE, result |-> curr, parent |-> parent, is_right |-> is_right]
             ELSE insert_loop(t, comp, get_child(t, curr, insert_is_right(cmp)),
                              curr, insert_is_right(cmp))
    ELSE [found |-> FALSE, result |-> Null, parent |-> parent, is_right |-> is_right]

\* Fault: the new node's etl_parent is not set.
link_new_node_no_parent(t, parent, is_right, result) ==
    IF parent # Origin
    THEN set_child_ref(t, parent, is_right, result)
    ELSE [t EXCEPT !.etl_left[Origin] = result]

\* Fault: the parent's child slot is not written.
link_new_node_no_child(t, parent, is_right, result) ==
    [t EXCEPT !.etl_parent[result] = parent]

\* Fault: the new node's own child slots are reset when it is linked.
link_new_node_as_leaf(t, parent, is_right, result) ==
    LET linked == IF parent # Origin
                  THEN set_child_ref(t, parent, is_right, result)
                  ELSE [t EXCEPT !.etl_left[Origin] = result]
    IN  [linked EXCEPT !.etl_parent[result] = parent,
                       !.etl_left[result] = Null, !.etl_right[result] = Null]

\* "Link the new node."
link_new_node(t, parent, is_right, result) ==
    LET linked == IF parent # Origin
                  THEN set_child_ref(t, parent, is_right, result)
                  ELSE [t EXCEPT !.etl_left[Origin] = result]
    IN  [linked EXCEPT !.etl_parent[result] = parent]

\* "TODO: Rebalance the tree."
rebalance(t, result) == t

\* factory is what factory() returns when it is called: a value or ETL_NULLPTR.
find_or_insert_impl(t, comp, factory) ==
    LET d == insert_loop(t, comp, get_root(t), Origin, FALSE)
    IN  IF d.found
        THEN [t |-> t, first |-> d.result, second |-> FALSE, factory_called |-> FALSE]
        ELSE IF Null = factory
             THEN [t |-> t, first |-> Null, second |-> FALSE, factory_called |-> TRUE]
             ELSE [t |-> rebalance(link_new_node(t, d.parent, d.is_right, factory), factory),
                   first |-> factory, second |-> TRUE, factory_called |-> TRUE]

\* intrusive_avl_tree::find_or_insert
find_or_insert(t, comp, factory) ==
    LET ptr_mod == find_or_insert_impl(t, comp, factory)
    IN  [ptr_mod EXCEPT !.first = make_iterator(ptr_mod.first, end_impl(t))]

\* assign_impl: the values first..last_-1 are inserted one at a time; each
\* find_or_insert_impl has returned (its tree is the value x) before the next
\* one starts.
RECURSIVE assign_impl(_, _, _)
assign_impl(t, first, last_) ==
    IF first # last_
    THEN CHOOSE r \in {assign_impl(x, first + 1, last_) :
                         x \in {find_or_insert_impl(t, CompareFactory(first),
                                                    CompareFactory_factory(first)).t}} : TRUE
    ELSE t

(***************************************************************************)
(* The count of live nodes.  The header keeps no counter; the design       *)
(* document gives the tree one: "size incremented" by an insertion that    *)
(* links a node, decremented by erase.                                     *)
(***************************************************************************)
\* The counter after a find_or_insert_impl that returned (_, inserted).
size_find_or_insert(n, inserted) == IF inserted THEN n + 1 ELSE n

\* The counter after assign_impl(first, last_) on a tree whose counter is 0.
RECURSIVE assign_size(_, _, _)
assign_size(t, first, last_) ==
    IF first # last_
    THEN CHOOSE n \in {size_find_or_insert(assign_size(x.t, first + 1, last_), x.second) :
                         x \in {find_or_insert_impl(t, CompareFactory(first),
                                                    CompareFactory_factory(first))}} : TRUE
    ELSE 0

\* The counter after an erase.
size_erase(n) == n - 1

(***************************************************************************)
(* erase.  The header has no erase (its only trace is the call             *)
(* data0.erase(it_mod.first) of test_find_or_insert); it is modelled from  *)
(* the design document: "removes the referenced node, re-links its subtree *)
(* per standard BST deletion (successor splice for two-child case),        *)
(* decrements size, and invokes the rebalancer".                           *)
(***************************************************************************)
\* The slot that holds u takes v, and v (if any) takes u's parent.
transplant(t, u, v) ==
    LET p == t.etl_parent[u]
        moved == IF t.etl_left[p] = u
                 THEN [t EXCEPT !.etl_left[p] = v]
                 ELSE [t EXCEPT !.etl_right[p] = v]
    IN  IF v # Null THEN [moved EXCEPT !.etl_parent[v] = p] ELSE moved

\* The two-child case: the in-order successor y of z (the left-most node of
\* z's right subtree) is cut out of its place and spliced in where z was.
successor_splice(t, z) ==
    LET y == find_extremum_impl(t, t.etl_right[z], FALSE)
        cut == IF t.etl_parent[y] # z
               THEN LET a == transplant(t, y, t.etl_right[y])
                        r == a.etl_right[z]
                    IN  [a EXCEPT !.etl_right[y] = r, !.etl_parent[r] = y]
               ELSE t
        placed == transplant(cut, z, y)
        l == placed.etl_left[z]
    IN  [placed EXCEPT !.etl_left[y] = l, !.etl_parent[l] = y, !.etl_bf[y] = t.etl_bf[z]]

\* The erased value's link is left as a constructed one.
unlink(t, z) ==
    [t EXCEPT !.etl_parent[z] = Null, !.etl_left[z] = Null, !.etl_right[z] = Null,
              !.etl_bf[z] = 0]

erase(t, z) ==
    LET relinked == IF t.etl_left[z] = Null THEN transplant(t, z, t.etl_right[z])
                    ELSE IF t.etl_right[z] = Null THEN transplant(t, z, t.etl_left[z])
                    ELSE successor_splice(t, z)
    IN  rebalance(unlink(relinked, z), t.etl_parent[z])

(***************************************************************************)
(* The tree and its callers.                                               *)
(***************************************************************************)
\* The key sequences a range [first, last) of constructed values can hold.
RangeInputs == UNION {[1..n -> Key] : n \in 0..MaxNodes}

Call(op, comp, factory, first, second, factory_called, steps) ==
    [op |-> op, comp |-> comp, factory |-> factory, first |-> first, second |-> second,
     factory_called |-> factory_called, steps |-> steps]

\* intrusive_avl_tree() when the range is empty, else
\* intrusive_avl_tree(first, last, lessComp) over values 1..Len(input);
\* the caller's iterator is default-constructed.
Init ==
    \E input \in RangeInputs :
        /\ key = input
        /\ range = input
        /\ \E t \in {assign_impl(link_type, 1, Len(input) + 1)} :
               /\ etl_parent = t.etl_parent
               /\ etl_left = t.etl_left
               /\ etl_right = t.etl_right
               /\ etl_bf = t.etl_bf
        /\ size = assign_size(link_type, 1, Len(input) + 1)
        /\ p_value = Null
        /\ last = Call("construct", NoComp, Null, Null, FALSE, FALSE, 0)

\* it = tree.find_or_insert(CompareByValue{k}, factory).first: the factory
\* constructs the next value with key k and returns it, or returns ETL_NULLPTR.
FindOrInsert(k, accept) ==
    /\ accept => used < MaxNodes
    /\ \E value \in {IF accept THEN used + 1 ELSE Null} :
       \E r \in {find_or_insert(Links, CompareByValue(k), value)} :
           /\ etl_parent' = r.t.etl_parent
           /\ etl_left' = r.t.etl_left
           /\ etl_right' = r.t.etl_right
           /\ etl_bf' = r.t.etl_bf
           /\ key' = IF r.factory_called /\ accept THEN Append(key, k) ELSE key
           /\ last' = Call("find_or_insert", CompareByValue(k), value, r.first, r.second,
                           r.factory_called, 0)
           /\ p_value' = r.first
           /\ size' = size_find_or_insert(size, r.second)
           /\ UNCHANGED range

\* Fault: find writes the number of comparisons into the balance field of
\* the link it returns.
Find_writing(comp) ==
    LET r == find(Links, comp)
    IN  /\ last' = Call("find", comp, Null, r.first, FALSE, FALSE, r.steps)
        /\ p_value' = r.first
        /\ etl_bf' = [etl_bf EXCEPT ![r.first] = r.steps + 1]
        /\ UNCHANGED <<etl_parent, etl_left, etl_right, key, range, size>>

\* it = tree.find(comp)
Find(comp) ==
    \E r \in {find(Links, comp)} :
        /\ last' = Call("find", comp, Null, r.first, FALSE, FALSE, r.steps)
        /\ p_value' = r.first
        /\ UNCHANGED <<etl_parent, etl_left, etl_right, etl_bf, key, range, size>>

\* it = tree.begin()
Begin ==
    /\ p_value' = begin_impl(Links)
    /\ last' = Call("begin", NoComp, Null, p_value', FALSE, FALSE, 0)
    /\ UNCHANGED <<etl_parent, etl_left, etl_right, etl_bf, key, range, size>>

\* it = tree.end()
End ==
    /\ p_value' = end_impl(Links)
    /\ last' = Call("end", NoComp, Null, p_value', FALSE, FALSE, 0)
    /\ UNCHANGED <<etl_parent, etl_left, etl_right, etl_bf, key, range, size>>

\* ++it
Increment ==
    /\ p_value' = next_in_order_impl(Links, p_value)
    /\ last' = Call("++", NoComp, Null, p_value', FALSE, FALSE, 0)
    /\ UNCHANGED <<etl_parent, etl_left, etl_right, etl_bf, key, range, size>>

\* --it
Decrement ==
    /\ p_value' = prev_in_order_impl(Links, p_value)
    /\ last' = Call("--", NoComp, Null, p_value', FALSE, FALSE, 0)
    /\ UNCHANGED <<etl_parent, etl_left, etl_right, etl_bf, key, range, size>>

\* it++ : returns the iterator as it was
PostIncrement ==
    /\ p_value' = next_in_order_impl(Links, p_value)
    /\ last' = Call("++(int)", NoComp, Null, p_value, FALSE, FALSE, 0)
    /\ UNCHANGED <<etl_parent, etl_left, etl_right, etl_bf, key, range, size>>

\* it-- : returns the iterator as it was
PostDecrement ==
    /\ p_value' = prev_in_order_impl(Links, p_value)
    /\ last' = Call("--(int)", NoComp, Null, p_value, FALSE, FALSE, 0)
    /\ UNCHANGED <<etl_parent, etl_left, etl_right, etl_bf, key, range, size>>

\* iterator(): p_value(ETL_NULLPTR)
iterator_default == Null

\* it = iterator()
DefaultIterator ==
    /\ p_value' = iterator_default
    /\ last' = Call("iterator()", NoComp, Null, p_value', FALSE, FALSE, 0)
    /\ UNCHANGED <<etl_parent, etl_left, etl_right, etl_bf, key, range, size>>

\* tree.empty(): the answer is recorded in last.second
Empty ==
    /\ last' = Call("empty", NoComp, Null, p_value, empty(Links), FALSE, 0)
    /\ UNCHANGED <<etl_parent, etl_left, etl_right, etl_bf, key, range, size, p_value>>

\* tree.erase(it) with an iterator to a value of the tree; the caller's
\* iterator, which no longer refers into the tree, is reset.
Erase ==
    /\ p_value \in Node
    /\ LET t == erase(Links, p_value)
       IN  /\ etl_parent' = t.etl_parent
           /\ etl_left' = t.etl_left
           /\ etl_right' = t.etl_right
           /\ etl_bf' = t.etl_bf
    /\ size' = size_erase(size)
    /\ last' = Call("erase", NoComp, Null, p_value, FALSE, FALSE, 0)
    /\ p_value' = iterator_default
    /\ UNCHANGED <<key, range>>

Comparators == {CompareByValue(k) : k \in Key} \cup {always_after, always_before}

Next ==
    \/ \E k \in Key, accept \in BOOLEAN : FindOrInsert(k, accept)
    \/ \E comp \in Comparators : Find(comp)
    \/ Begin
    \/ End
    \/ Increment
    \/ Decrement

Spec == Init /\ [][Next]_vars

\* The tree with a caller that walks it: every iterator operation and
\* empty(), between insertions.
NextIter ==
    \/ \E k \in Key : FindOrInsert(k, TRUE)
    \/ Begin
    \/ End
    \/ Increment
    \/ Decrement
    \/ PostIncrement
    \/ PostDecrement
    \/ DefaultIterator
    \/ Empty

SpecIter == Init /\ [][NextIter]_vars

\* The tree with a caller that uses every read-only operation between
\* insertions.
NextRead ==
    \/ NextIter
    \/ \E comp \in Comparators : Find(comp)

SpecRead == Init /\ [][NextRead]_vars

\* ~intrusive_avl_tree_base() {} and then intrusive_avl_tree(): the tree
\* constructed from the range goes out of scope and a second one is
\* constructed empty.  The destructor touches no value, so the values outlive
\* the tree with their links as they were.
Reconstruct ==
    /\ Len(range) > 0
    /\ etl_parent' = [etl_parent EXCEPT ![Origin] = link_type.etl_parent[Origin]]
    /\ etl_left' = [etl_left EXCEPT ![Origin] = link_type.etl_left[Origin]]
    /\ etl_right' = [etl_right EXCEPT ![Origin] = link_type.etl_right[Origin]]
    /\ etl_bf' = [etl_bf EXCEPT ![Origin] = link_type.etl_bf[Origin]]
    /\ range' = <<>>
    /\ size' = 0
    /\ p_value' = iterator_default
    /\ last' = Call("~intrusive_avl_tree", NoComp, Null, p_value', FALSE, FALSE, 0)
    /\ UNCHANGED key

\* No path of child slots from n is longer than fuel.
RECURSIVE Finite(_, _, _)
Finite(t, n, fuel) ==
    IF n = Null THEN TRUE
    ELSE IF fuel = 0 THEN FALSE
    ELSE Finite(t, t.etl_left[n], fuel - 1) /\ Finite(t, t.etl_right[n], fuel - 1)

\* The descent loops of the tree end on every comparator: the child slots
\* below the root hold no cycle.  (On a cycle "while (ETL_NULLPTR != curr)"
\* need not end, and a call that does not return has no next state.)
Returns == Finite(Links, get_root(Links), MaxNodes)

\* tree.find_or_insert(CompareByValue{v's key}, [&v] { return &v; }) with a
\* value v constructed earlier, whatever its links hold by now.
FindOrInsertValue(v) ==
    /\ Returns
    /\ \E r \in {find_or_insert(Links, CompareByValue(key[v]), v)} :
           /\ etl_parent' = r.t.etl_parent
           /\ etl_left' = r.t.etl_left
           /\ etl_right' = r.t.etl_right
           /\ etl_bf' = r.t.etl_bf
           /\ last' = Call("find_or_insert", CompareByValue(key[v]), v, r.first, r.second,
                           r.factory_called, 0)
           /\ p_value' = r.first
           /\ size' = size_find_or_insert(size, r.second)
           /\ UNCHANGED <<key, range>>

\* The tree with a caller that lets the tree go out of scope and inserts the
\* values of the range, linked before, into the tree that follows.
NextStale ==
    \/ Reconstruct
    \/ \E v \in 1..used : FindOrInsertValue(v)

SpecStale == Init /\ [][NextStale]_vars

\* The tree with a caller that inserts, looks values up by key, walks
\* forward from begin() and erases the value its iterator refers to.
NextErase ==
    \/ \E k \in Key : FindOrInsert(k, TRUE)
    \/ \E k \in Key : Find(CompareByValue(k))
    \/ Begin
    \/ Increment
    \/ Erase

SpecErase == Init /\ [][NextErase]_vars

(***************************************************************************)
(* Notions the properties are stated with.                                 *)
(***************************************************************************)
\* The nodes of the subtree rooted at n.
RECURSIVE Subtree(_, _)
Subtree(t, n) ==
    IF n = Null THEN {}
    ELSE {n} \cup Subtree(t, t.etl_left[n]) \cup Subtree(t, t.etl_right[n])

\* The nodes reachable from the root.
Reachable(t) == Subtree(t, get_root(t))

Max(a, b) == IF a >= b THEN a ELSE b

\* Number of nodes on the longest path from n down to a leaf.
RECURSIVE Height(_, _)
Height(t, n) ==
    IF n = Null THEN 0
    ELSE 1 + Max(Height(t, t.etl_left[n]), Height(t, t.etl_right[n]))

\* More ++ or -- steps than any tree of the model has positions.
WalkFuel == MaxNodes + 2

\* The nodes ++ visits from curr until end(), at most fuel of them.
RECURSIVE WalkForward(_, _, _)
WalkForward(t, curr, fuel) ==
    IF curr = Origin \/ curr = Null \/ fuel = 0 THEN <<>>
    ELSE <<curr>> \o WalkForward(t, next_in_order_impl(t, curr), fuel - 1)

\* The nodes -- reaches from curr until begin() is reached, at most fuel of them.
RECURSIVE WalkBackward(_, _, _)
WalkBackward(t, curr, fuel) ==
    IF curr = begin_impl(t) \/ curr = Null \/ fuel = 0 THEN <<>>
    ELSE LET p == prev_in_order_impl(t, curr)
         IN  <<p>> \o WalkBackward(t, p, fuel - 1)

\* curr after i applications of ++.
RECURSIVE Advance(_, _, _)
Advance(t, curr, i) == IF i = 0 THEN curr ELSE Advance(t, next_in_order_impl(t, curr), i - 1)

InOrder == WalkForward(Links, begin_impl(Links), WalkFuel)

Reverse(s) == [i \in 1..Len(s) |-> s[Len(s) + 1 - i]]

Abs(x) == IF x < 0 THEN -x ELSE x

\* The tree is as its constructor left it.
AsConstructed == used = Len(range)

DistinctKeys(S) == \A a, b \in S : a # b => key[a] # key[b]

(***************************************************************************)
(* Properties.                                                             *)
(***************************************************************************)

\* C1: AVL height bound.  Every node reachable from the root has subtrees
\* whose heights differ by at most one, after construction from a range and
\* after every find_or_insert; stated for the trees the claim singles out,
\* those whose keys are pairwise distinct.
C1_AvlHeightBound ==
    DistinctKeys(Reachable(Links)) =>
    \A n \in Reachable(Links) :
        Abs(Height(Links, etl_left[n]) - Height(Links, etl_right[n])) <= 1

\* C2: balance-factor invariant.  Between public operations every reachable
\* node's etl_bf is height(right subtree) - height(left subtree) and lies in
\* {-1, 0, +1}; stated for trees whose keys are pairwise distinct.
C2_BalanceFactor ==
    DistinctKeys(Reachable(Links)) =>
    \A n \in Reachable(Links) :
        /\ etl_bf[n] = Height(Links, etl_right[n]) - Height(Links, etl_left[n])
        /\ etl_bf[n] \in {-1, 0, 1}

\* C3: BST order.  The walk with ++ from begin() reaches end(), and the keys
\* it visits are in non-decreasing order.
C3_BstOrder ==
    LET w == InOrder
    IN  /\ Len(w) <= MaxNodes
        /\ \A i \in 1..(Len(w) - 1) : key[w[i]] <= key[w[i + 1]]

\* C3 witness: a tree built from an unsorted range and then grown by
\* find_or_insert, holding at least four values.
C3_Witness ==
    /\ Len(range) >= 2
    /\ range[1] > range[2]
    /\ last.op = "find_or_insert"
    /\ last.second
    /\ Cardinality(Reachable(Links)) >= 4
    /\ Len(InOrder) >= 4

\* C4: traversal completeness.  For a tree constructed from a range of n
\* values with pairwise distinct keys, ++ from begin() visits each of the n
\* values exactly once, in ascending key order, and is at end() after exactly
\* n increments.
C4_TraversalComplete ==
    (AsConstructed /\ DistinctKeys(1..used)) =>
        LET n == Len(range)
            w == InOrder
        IN  /\ Len(w) = n
            /\ \A i \in 1..(n - 1) : key[w[i]] < key[w[i + 1]]
            /\ {w[i] : i \in 1..n} = 1..n
            /\ \A i \in 0..(n - 1) : Advance(Links, begin_impl(Links), i) # end_impl(Links)
            /\ Advance(Links, begin_impl(Links), n) = end_impl(Links)

\* C4 witness: the tree was constructed from an interleaved range 2,1,4,3 and
\* the caller's iterator has walked it to end().
C4_Witness ==
    /\ AsConstructed
    /\ Len(range) >= 4
    /\ range[1] = 2 /\ range[2] = 1 /\ range[3] = 4 /\ range[4] = 3
    /\ last.op = "++"
    /\ p_value = end_impl(Links)

\* Some reachable node holds key k.
KeyInTree(k) == \E n \in Reachable(Links) : key[n] = k

\* C5: no duplicates.  A find_or_insert whose key is held by a node of the
\* tree returns an iterator to a node that was already in the tree and holds
\* that key, with inserted = false; the factory is not called, no link field
\* changes, the reachable nodes stay the same and the factory's value is not
\* among them.  (A step that leaves last.op = "find_or_insert" is a
\* FindOrInsert step or changes nothing.)
C5_NoDuplicates ==
    [][(last'.op = "find_or_insert" /\ KeyInTree(last'.comp.value)) =>
              /\ last'.first \in Reachable(Links)
              /\ key[last'.first] = last'.comp.value
              /\ ~last'.second
              /\ ~last'.factory_called
              /\ Links' = Links
              /\ Reachable(Links') = Reachable(Links)
              /\ last'.factory \notin Reachable(Links')
              /\ last'.first # last'.factory]_vars

\* C5 witness: find_or_insert was offered a new value for a key the tree
\* holds and returned the existing node.
C5_Witness ==
    /\ last.op = "find_or_insert"
    /\ last.factory \in Node
    /\ last.first \in Reachable(Links)
    /\ key[last.first] = last.comp.value
    /\ ~last.second

\* C6: refused insertion.  When no node holds the key and the factory
\* returns ETL_NULLPTR, find_or_insert returns (end(), false) and every link
\* field of the origin and of every node is unchanged, for empty and
\* non-empty trees.
C6_RefusedInsertion ==
    [][(last'.op = "find_or_insert" /\ last'.factory = Null
            /\ ~KeyInTree(last'.comp.value)) =>
              /\ last'.first = end_impl(Links)
              /\ ~last'.second
              /\ Links' = Links
              /\ empty(Links') = empty(Links)]_vars

\* C6 witness: the factory was called on a non-empty tree and refused.
C6_Witness ==
    /\ last.op = "find_or_insert"
    /\ last.factory_called
    /\ last.factory = Null
    /\ last.first = end_impl(Links)
    /\ ~empty(Links)

\* C7: range construction discards duplicates.  Of the values of the input
\* range that are equivalent under the comparator only the first is linked,
\* and the tree never holds two equivalent values.
C7_RangeDiscardsDuplicates ==
    /\ DistinctKeys(Reachable(Links))
    /\ AsConstructed =>
          Reachable(Links) = {i \in 1..Len(range) : \A j \in 1..(i - 1) : range[j] # range[i]}

\* C8: find by value.  On a tree with pairwise distinct keys,
\* find(CompareByValue{k}) returns an iterator to the node holding k when
\* there is one and end() when there is none.
C8_FindByValue ==
    (last.op = "find" /\ last.comp.kind = "CompareByValue"
        /\ DistinctKeys(Reachable(Links))) =>
        IF KeyInTree(last.comp.value)
        THEN last.first \in Reachable(Links) /\ key[last.first] = last.comp.value
        ELSE last.first = end_impl(Links)

\* C8 witness: find returned a node that is not the root, in a tree that
\* branches both ways.
C8_Witness ==
    /\ last.op = "find"
    /\ last.comp.kind = "CompareByValue"
    /\ DistinctKeys(Reachable(Links))
    /\ last.first \in Reachable(Links) \ {get_root(Links)}
    /\ etl_left[get_root(Links)] # Null
    /\ etl_right[get_root(Links)] # Null

\* C9: find with a comparator that is constantly negative or constantly
\* positive returns end() on every tree, after at most height-of-the-tree
\* comparator calls.
C9_FindConstant ==
    (last.op = "find" /\ last.comp.kind \in {"always_after", "always_before"}) =>
        /\ last.first = end_impl(Links)
        /\ last.steps <= Height(Links, get_root(Links))

\* C9 witness: such a find descended at least two levels.
C9_Witness ==
    /\ last.op = "find"
    /\ last.comp.kind = "always_before"
    /\ last.first = end_impl(Links)
    /\ last.steps >= 2

\* C10: round-trip traversal.  On a non-empty tree the nodes -- visits from
\* end() down to begin() are the nodes ++ visits from begin() to end(), in
\* reverse; prev(next(x)) = x for every node x, and next(prev(y)) = y for
\* every position y but begin().
C10_RoundTrip ==
    ~empty(Links) =>
        LET w == InOrder
            nodes == Reachable(Links)
        IN  /\ Len(w) <= MaxNodes
            /\ WalkBackward(Links, end_impl(Links), WalkFuel) = Reverse(w)
            /\ \A x \in nodes :
                  prev_in_order_impl(Links, next_in_order_impl(Links, x)) = x
            /\ \A y \in (nodes \cup {Origin}) \ {begin_impl(Links)} :
                  next_in_order_impl(Links, prev_in_order_impl(Links, y)) = y

\* C10 witness: the caller's iterator was decremented back to begin() in a
\* tree whose root has two children.
C10_Witness ==
    /\ last.op = "--"
    /\ p_value = begin_impl(Links)
    /\ Cardinality(Reachable(Links)) >= 4
    /\ etl_left[get_root(Links)] # Null
    /\ etl_right[get_root(Links)] # Null

(***************************************************************************)
(* Iterators, begin(), end() and empty(): checked under SpecIter.          *)
(***************************************************************************)
\* The nodes met from n by following only right (or only left) children.
RECURSIVE Spine(_, _, _)
Spine(t, n, is_right) ==
    IF n = Null THEN {} ELSE {n} \cup Spine(t, get_child(t, n, is_right), is_right)

\* n is the right-most node: on the right spine, without right child, no key
\* in the tree is greater, and it is where the ++ walk ends.
IsMaximum(n) ==
    /\ n \in Spine(Links, get_root(Links), TRUE)
    /\ etl_right[n] = Null
    /\ \A m \in Reachable(Links) : key[m] <= key[n]
    /\ n = InOrder[Len(InOrder)]

\* n is the left-most node: on the left spine, without left child, no key in
\* the tree is smaller.
IsMinimum(n) ==
    /\ n \in Spine(Links, get_root(Links), FALSE)
    /\ etl_left[n] = Null
    /\ \A m \in Reachable(Links) : key[n] <= key[m]

\* C11: idempotent end.  ++it and it++ on an iterator equal to end() leave it
\* equal to end() (and return end()), on empty and non-empty trees.
C11_IdempotentEnd ==
    [][(p_value = end_impl(Links) /\ last'.op \in {"++", "++(int)"}) =>
          /\ p_value' = end_impl(Links')
          /\ last'.first = end_impl(Links')]_vars

\* C11 witness: it++ was applied at end() of a non-empty tree.
C11_Witness ==
    /\ last.op = "++(int)"
    /\ last.first = end_impl(Links)
    /\ p_value = end_impl(Links)
    /\ ~empty(Links)

\* C12: --it and it-- on end() of a non-empty tree leave the iterator on the
\* right-most node, which is not end(); it-- returns end().
C12_DecrementEnd ==
    [][(p_value = end_impl(Links) /\ ~empty(Links) /\ last'.op \in {"--", "--(int)"}) =>
          /\ IsMaximum(p_value')
          /\ p_value' # end_impl(Links')
          /\ last'.op = "--(int)" => last'.first = end_impl(Links)]_vars

\* C12 witness: it-- was applied at end() of a tree whose maximum is not its
\* root and not its minimum.
C12_Witness ==
    /\ last.op = "--(int)"
    /\ last.first = end_impl(Links)
    /\ p_value \in Node
    /\ p_value # get_root(Links)
    /\ p_value # begin_impl(Links)

\* C13: --it and it-- on begin() of a non-empty tree leave the iterator equal
\* to end(); it-- returns begin().
C13_DecrementBegin ==
    [][(p_value = begin_impl(Links) /\ ~empty(Links) /\ last'.op \in {"--", "--(int)"}) =>
          /\ p_value' = end_impl(Links')
          /\ last'.op = "--(int)" => last'.first = begin_impl(Links)]_vars

\* C13 witness: it-- was applied at begin() of a tree whose minimum is not
\* its root.
C13_Witness ==
    /\ last.op = "--(int)"
    /\ last.first = begin_impl(Links)
    /\ last.first # get_root(Links)
    /\ p_value = end_impl(Links)
    /\ ~empty(Links)

\* C14: a default-constructed iterator has no referent, still has none after
\* ++ and -- steps, and so differs from begin() and end(), which always
\* refer to a link.
C14_DefaultIterator ==
    [][/\ last'.op = "iterator()" => p_value' = Null
       /\ (p_value = Null /\ last'.op \in {"++", "++(int)", "--", "--(int)"}) =>
              (p_value' = Null /\ last'.first = Null)
       /\ begin_impl(Links) # Null /\ end_impl(Links) # Null
       /\ begin_impl(Links') # Null /\ end_impl(Links') # Null
       /\ p_value' = Null => (p_value' # begin_impl(Links') /\ p_value' # end_impl(Links'))]_vars

\* C14 witness: a default-constructed iterator was decremented on a non-empty
\* tree.
C14_Witness ==
    /\ last.op = "--"
    /\ p_value = Null
    /\ ~empty(Links)

\* C15: begin() is the left-most node of a non-empty tree and the origin of an
\* empty one, end() is the origin; so begin() = end() exactly when empty(),
\* empty() answers whether the origin's left slot is empty, and a
\* default-constructed tree is empty.
C15_BeginEnd ==
    /\ end_impl(Links) = Origin
    /\ IF etl_left[Origin] = Null
       THEN begin_impl(Links) = Origin
       ELSE IsMinimum(begin_impl(Links))
    /\ (begin_impl(Links) = end_impl(Links)) <=> empty(Links)
    /\ last.op = "empty" => (last.second <=> (etl_left[Origin] = Null))
    /\ last.op = "begin" => p_value = begin_impl(Links)
    /\ (last.op = "construct" /\ Len(range) = 0) => empty(Links)

\* C15 witness: begin() was called on a tree whose left-most node is two
\* levels below the root.
C15_Witness ==
    /\ last.op = "begin"
    /\ p_value \in Node
    /\ etl_parent[p_value] \in Node
    /\ etl_parent[etl_parent[p_value]] \in Node

\* The links of t in whose left or right slot n is held, each with the side.
Holders(t, n) == {h \in Link \X BOOLEAN : get_child(t, h[1], h[2]) = n}

\* Every node of S is held by exactly one slot, and its etl_parent is the
\* link that slot belongs to.
ParentConsistent(t, S) ==
    \A n \in S :
        /\ Cardinality(Holders(t, n)) = 1
        /\ \A h \in Holders(t, n) : t.etl_parent[n] = h[1]

\* n lies where the descent under comp from the root leads: every link above
\* n holds the next one on the side its comparator result chooses.
RECURSIVE OnDescent(_, _, _)
OnDescent(t, comp, n) ==
    LET a == t.etl_parent[n]
    IN  IF a = Origin THEN t.etl_left[Origin] = n
        ELSE /\ a \in Node
             /\ Compare(comp, a) # 0
             /\ get_child(t, a, Compare(comp, a) > 0) = n
             /\ OnDescent(t, comp, a)

C17_Erase ==
    [][last'.op = "erase" =>
          LET z == last'.first
              before == InOrder
              after == WalkForward(Links', begin_impl(Links'), WalkFuel)
          IN  /\ after = SelectSeq(before, LAMBDA n : n # z)
              /\ find(Links', CompareByValue(key[z])).first = end_impl(Links')
              /\ \A i \in 1..(Len(after) - 1) : key[after[i]] <= key[after[i + 1]]
              /\ ParentConsistent(Links', Reachable(Links'))
              /\ Reachable(Links) = {z} => empty(Links')]_vars

\* C19: successful insertion.  A find_or_insert that links the factory's
\* value v returns (iterator to v, true); v is a new leaf, held on the side
\* the last comparator result chooses (right if positive, left if negative)
\* by the last node the descent visited, or by the sentinel's left slot if the
\* tree was empty; v's etl_parent is that node (the sentinel for the root);
\* no other link field changes.
C19_SuccessfulInsertion ==
    [][(last'.op = "find_or_insert" /\ last'.second) =>
          LET v == last'.factory
              p == etl_parent'[v]
              comp == last'.comp
          IN  /\ v \in Node
              /\ last'.first = v
              /\ p_value' = v
              /\ v \notin Reachable(Links)
              /\ Reachable(Links') = Reachable(Links) \cup {v}
              /\ etl_left'[v] = Null /\ etl_right'[v] = Null
              /\ IF empty(Links)
                 THEN p = Origin /\ etl_left'[Origin] = v
                 ELSE /\ p \in Reachable(Links)
                      /\ Compare(comp, p) # 0
                      /\ get_child(Links, p, Compare(comp, p) > 0) = Null
                      /\ get_child(Links', p, Compare(comp, p) > 0) = v
                      /\ get_child(Links', p, ~(Compare(comp, p) > 0))
                            = get_child(Links, p, ~(Compare(comp, p) > 0))
              /\ OnDescent(Links', comp, v)
              /\ \A n \in Link \ {v, p} :
                    /\ etl_left'[n] = etl_left[n]
                    /\ etl_right'[n] = etl_right[n]
              /\ \A n \in Link \ {v} : etl_parent'[n] = etl_parent[n]]_vars

\* C19 witness: the value was linked as the left child of a node that is
\* itself a right child, two levels below the root.
C19_Witness ==
    /\ last.op = "find_or_insert"
    /\ last.second
    /\ etl_parent[last.first] \in Node
    /\ etl_left[etl_parent[last.first]] = last.first
    /\ etl_parent[etl_parent[last.first]] \in Node
    /\ etl_right[etl_parent[etl_parent[last.first]]] = etl_parent[last.first]

\* C20: parent-link consistency.  Every node reachable from the sentinel's
\* left slot is held by exactly one left or right slot, and its etl_parent is
\* the node (the sentinel for the root) that slot belongs to; the walk over
\* the tree visits as many nodes as are reachable.
C20_ParentLinks ==
    LET S == Reachable(Links)
    IN  /\ ParentConsistent(Links, S)
        /\ etl_parent[Origin] = Null
        /\ Origin \notin S
        /\ Len(InOrder) = Cardinality(S)

\* C20 witness: a find_or_insert has linked a value into a tree in which an
\* inner node below the root has both of its children.
C20_Witness ==
    /\ last.op = "find_or_insert"
    /\ last.second
    /\ \E n \in Node :
          /\ etl_parent[n] \in Node
          /\ etl_left[n] \in Node
          /\ etl_right[n] \in Node

\* C21: sentinel invariant.  The origin's parent slot is empty; its left slot
\* holds the root and is empty exactly when the tree is empty; every node
\* reachable from the root has a parent; so is_origin() is true of the origin
\* and of no reachable node.
C21_Sentinel ==
    LET S == Reachable(Links)
    IN  /\ etl_parent[Origin] = Null
        /\ is_origin(Links, Origin)
        /\ get_root(Links) = etl_left[Origin]
        /\ (etl_left[Origin] = Null) <=> empty(Links)
        /\ (etl_left[Origin] = Null) <=> (S = {})
        /\ etl_left[Origin] # Null => etl_parent[etl_left[Origin]] = Origin
        /\ \A n \in S : etl_parent[n] # Null /\ ~is_origin(Links, n)

\* C21 witness: a find_or_insert has linked a fourth value, three levels
\* below the origin.
C21_Witness ==
    /\ last.op = "find_or_insert"
    /\ last.second
    /\ Cardinality(Reachable(Links)) = 4
    /\ etl_parent[last.first] \in Node
    /\ etl_parent[etl_parent[last.first]] \in Node

\* The operations that only read the tree.
ReadOnlyOps == {"empty", "begin", "end", "find", "++", "--", "++(int)", "--(int)"}

\* C22: read-only operations do not mutate structure.  empty(), begin(),
\* end(), find() and the iterator steps ++ and -- leave the parent, left,
\* right and balance fields of the origin and of every node as they were.
C22_ReadOnly ==
    [][last'.op \in ReadOnlyOps =>
          \A n \in Link :
              /\ etl_parent'[n] = etl_parent[n]
              /\ etl_left'[n] = etl_left[n]
              /\ etl_right'[n] = etl_right[n]
              /\ etl_bf'[n] = etl_bf[n]]_vars

\* C22 witness: find has returned a node two levels below the root of a
\* tree of at least three values.
C22_Witness ==
    /\ last.op = "find"
    /\ last.first \in Node
    /\ last.steps = 3
    /\ p_value = last.first
    /\ Cardinality(Reachable(Links)) >= 3

\* C24: stability of range construction.  The adapter of the range
\* constructor yields -1 when the new value is less than the candidate and +1
\* otherwise, never 0; every value of the range is linked; the in-order walk
\* is ordered by key, and values with equal keys appear in the order they had
\* in the range.
C24_RangeStable ==
    /\ \A a, b \in 1..used :
          CompareFactory_compare(a, b) = IF key[a] < key[b] THEN -1 ELSE 1
    /\ AsConstructed =>
          LET w == InOrder
          IN  /\ Reachable(Links) = 1..Len(range)
              /\ Len(w) = Len(range)
              /\ \A i \in 1..Len(w) : key[w[i]] = range[w[i]]
              /\ \A i \in 1..(Len(w) - 1) :
                    \/ key[w[i]] < key[w[i + 1]]
                    \/ key[w[i]] = key[w[i + 1]] /\ w[i] < w[i + 1]

\* C24 witness: the tree was constructed from the range 2,1,2,1, and the
\* walk visits the two values with key 1 and then the two with key 2, each
\* pair in range order.
C24_Witness ==
    /\ AsConstructed
    /\ range = <<2, 1, 2, 1>>
    /\ InOrder = <<2, 4, 1, 3>>

\* C25: the empty tree.  At end() (which is begin()) of an empty tree, ++ and
\* --, in prefix and postfix form, leave the iterator at the origin: the
\* result is never a null iterator and never a node.
C25_EmptyTreeSteps ==
    [][(empty(Links) /\ p_value = end_impl(Links)
          /\ last'.op \in {"++", "--", "++(int)", "--(int)"}) =>
          /\ begin_impl(Links) = end_impl(Links)
          /\ p_value' = Origin
          /\ p_value' # Null
          /\ last'.first = Origin
          /\ prev_in_order_impl(Links, Origin) = Origin
          /\ next_in_order_impl(Links, Origin) = Origin]_vars

\* C25 witness: -- has been applied at end() of a tree constructed empty.
C25_Witness ==
    /\ Len(range) = 0
    /\ empty(Links)
    /\ last.op = "--"
    /\ p_value = Origin

\* C23: frame of insertion.  A find_or_insert that returns inserted = true
\* writes two reference fields, the chosen child slot of the attachment node
\* (the origin's left slot for an empty tree) and the new node's etl_parent,
\* and no other field of any link; the new node's own left and right slots
\* are as the factory returned them, so it is a leaf afterwards exactly when
\* they were empty.
C23_InsertionFrame ==
    [][(last'.op = "find_or_insert" /\ last'.second) =>
          LET v == last'.factory
              p == etl_parent'[v]
              is_right == IF p = Origin THEN FALSE ELSE Compare(last'.comp, p) > 0
          IN  /\ v \in Node
              /\ p \in Link
              /\ v # p
              /\ (p = Origin) <=> empty(Links)
              /\ get_child(Links, p, is_right) = Null
              /\ get_child(Links', p, is_right) = v
              /\ \A n \in Link :
                    /\ etl_bf'[n] = etl_bf[n]
                    /\ n # v => etl_parent'[n] = etl_parent[n]
                    /\ (n # p \/ is_right) => etl_left'[n] = etl_left[n]
                    /\ (n # p \/ ~is_right) => etl_right'[n] = etl_right[n]
              /\ etl_left'[v] = etl_left[v]
              /\ etl_right'[v] = etl_right[v]
              /\ (etl_left'[v] = Null /\ etl_right'[v] = Null)
                    <=> (etl_left[v] = Null /\ etl_right[v] = Null)]_vars

\* C23 witness: a value that was an inner node of a tree since gone has been
\* linked into the new tree below its root; it still holds its old left
\* child and is not a leaf.
C23_Witness ==
    /\ last.op = "find_or_insert"
    /\ last.second
    /\ Len(range) = 0
    /\ etl_parent[last.factory] \in Node
    /\ etl_left[last.factory] \in Node

====
